---- MODULE Spec2Model ----
(***************************************************************************)
(* A model of qiskit_nature.runtime.VQEProgram: the configuration object   *)
(* with its validating setters, the dispatch compute_minimum_eigenvalue,   *)
(* the module function _validate_optimizer_settings, the callback adapter  *)
(* _wrap_vqe_callback and the runtime service of test/runtime.             *)
(*                                                                         *)
(* Python values of different types are never compared directly: a value   *)
(* whose type matters carries its type in a field t.                       *)
(***************************************************************************)
EXTENDS Naturals, Sequences, FiniteSets

VARIABLES
    pc,                        \* "new" before __init__, "ready" after it, "failed" if it raised
    program_name,              \* self._program_name
    provider,                  \* self._provider
    ansatz,                    \* self._ansatz
    optimizer_name,            \* self._optimizer_name
    optimizer_settings,        \* self._optimizer_settings, a dict: a set of <<key, value>>
    optimizer,                 \* self._optimizer ("unset": the attribute does not exist)
    backend,                   \* self._backend
    initial_point,             \* self._initial_point
    shots,                     \* self._shots
    readout_error_mitigation,  \* self._readout_error_mitigation
    callback,                  \* self._callback
    last,                      \* the last call on the object: [op, arg]
    err,                       \* the exception the last call raised: [kind, keys]
    ret,                       \* what the last call returned
    runs,                      \* remote runs made by the last call
    sent,                      \* what the last call passed to provider.runtime.run
    cb_calls,                  \* the calls of self._callback made during the last call
    cb_data                    \* the data the service passed to its callback in the last call

config == <<program_name, provider, ansatz, optimizer_name, optimizer_settings, optimizer,
            backend, initial_point, shots, readout_error_mitigation, callback>>

observed == <<last, err, ret, runs, sent, cb_calls, cb_data>>

vars == <<pc, config, observed>>

----------------------------------------------------------------------------
(* Bounds of the model *)

\* the largest number of entries of an optimizer-settings dict
MaxSettings == 1

----------------------------------------------------------------------------
(* Values *)

Tag(t, v) == [t |-> t, val |-> v]

\* Python ==, on tagged values
PyEq(a, b) == a.t = b.t /\ a.val = b.val

None == "None"

NoError == [kind |-> "NoError", keys |-> {}]

Raise(kind) == [kind |-> kind, keys |-> {}]

\* initial points: None, a numpy array, a list
PyNone == [t |-> "NoneType", s |-> "", v |-> <<>>]

PyStr(s) == [t |-> "str", s |-> s, v |-> <<>>]

InitialPoints ==
    { PyNone,
      [t |-> "ndarray", s |-> "", v |-> <<0, 1>>],
      [t |-> "list", s |-> "", v |-> <<0, 1>>] }

Ansatzes == {"RealAmplitudes"}

OptimizerNames == {"SPSA", "QN-SPSA", "COBYLA"}

Optimizers == {"SPSAOptimizer"}

Backends == {None, "AerSimulator"}

Providers == {None, "FakeRuntimeProvider", "NoRuntimeProvider", "UnauthorizedProvider"}

Callbacks == {None, "callback4"}

ShotCounts == {1024, 2048}

SettingKeys == {"maxiter", "trust_region", "tolerance"}

Dict(K) == {<<k, 100>> : k \in K}

keys(d) == {p[1] : p \in d}

SettingsDicts == {Dict(K) : K \in {S \in SUBSET SettingKeys : Cardinality(S) <= MaxSettings}}

AuxOperators == {None, "list"}

\* operators of qiskit.opflow: cls is the operator's class, prim the class of its
\* .primitive ("absent": no such attribute), labels and coeff its content
Operators ==
    { [cls |-> "PauliSumOp", prim |-> "SparsePauliOp", labels |-> <<"ZIZ">>, coeff |-> 1],
      [cls |-> "PauliOp", prim |-> "Pauli", labels |-> <<"XIX">>, coeff |-> 2],
      [cls |-> "CircuitOp", prim |-> "QuantumCircuit", labels |-> <<>>, coeff |-> 1] }

----------------------------------------------------------------------------
(* _validate_optimizer_settings *)

SupportedOptimizers == <<"SPSA", "QN-SPSA">>

allowed_settings ==
    << "maxiter", "blocking", "allowed_increase", "trust_region", "learning_rate",
       "perturbation", "resamplings", "last_avg", "second_order", "hessian_delay",
       "regularization", "initial_hessian" >>

Elements(lst) == {lst[i] : i \in 1..Len(lst)}

\* name in ['SPSA', 'QN-SPSA']
is_supported(name) == name \in Elements(SupportedOptimizers)

\* list.remove(x) on a list of strings: drops the first element equal to x and
\* raises ValueError when no element is equal to x; x is a tagged value
list_remove(lst, x) ==
    LET hits == {i \in 1..Len(lst) : x.t = "str" /\ lst[i] = x.val}
    IN  IF hits = {}
        THEN [raised |-> TRUE, list |-> lst]
        ELSE LET first == CHOOSE i \in hits : \A j \in hits : i <= j
             IN  [raised |-> FALSE,
                  list |-> SubSeq(lst, 1, first - 1) \o SubSeq(lst, first + 1, Len(lst))]

\* the argument of allowed_settings.remove for QN-SPSA: one list of two strings
QNSPSA_removed == Tag("list", <<"trust_region", "second_order">>)

validate_skipped(name, settings) == NoError

\* the exception raised by _validate_optimizer_settings(name, settings), or NoError
validate_optimizer_settings(name, settings) ==
    IF ~is_supported(name) THEN Raise("UnsupportedOptimizer")
    ELSE LET removal == IF name = "QN-SPSA"
                        THEN list_remove(allowed_settings, QNSPSA_removed)
                        ELSE [raised |-> FALSE, list |-> allowed_settings]
             unsupported_args == keys(settings) \ Elements(removal.list)
         IN  IF removal.raised THEN Raise("ListRemoveValueError")
             ELSE IF Cardinality(unsupported_args) > 0
                  THEN [kind |-> "UnsupportedSettings", keys |-> unsupported_args]
                  ELSE NoError

----------------------------------------------------------------------------
(* the operator conversion of compute_minimum_eigenvalue *)

\* SparsePauliOp(primitive) accepts a Pauli or a SparsePauliOp and raises otherwise
SparsePauliOp_accepts(prim) == prim \in {"Pauli", "SparsePauliOp"}

normalize_unconverted(operator) == [err |-> NoError, operator |-> operator]

\* the isinstance test and the try block: [err, operator]
normalize_operator(operator) ==
    IF operator.cls = "PauliSumOp" THEN [err |-> NoError, operator |-> operator]
    ELSE IF SparsePauliOp_accepts(operator.prim)
         THEN [err |-> NoError,
               operator |-> [cls |-> "PauliSumOp", prim |-> "SparsePauliOp",
                             labels |-> operator.labels, coeff |-> operator.coeff]]
         ELSE [err |-> Raise("InvalidOperator"), operator |-> operator]

initial_point_unchanged(point) == point

\* the 'initial_point' entry of the inputs
initial_point_input(point) ==
    IF point.t = "NoneType" THEN PyStr("random") ELSE point

\* backend.name()
backend_name(b) == IF b = "AerSimulator" THEN PyStr("aer_simulator") ELSE PyNone

----------------------------------------------------------------------------
(* _wrap_vqe_callback and the caller's callback *)

\* the number of values the caller's callback takes
CallbackArity == 4

\* the data the runtime service of the tests passes to its callback
fake_data == <<"3", "arange(10)", "1.3">>

\* data with the fields wrapped_callback reads from the runtime program
runtime_data == <<"3", "arange(10)", "1.3", "0.2", "True", "0.5">>

ServiceData == {fake_data, runtime_data}

NoCalls == <<>>

\* wrapped_callback(job_id, data): [err, calls], calls the argument tuples
\* self._callback was called with. Python's data[k] is data[k + 1] here.
wrapped_callback(data) ==
    IF Len(data) < 6 THEN [err |-> Raise("IndexError"), calls |-> NoCalls]
    ELSE LET iteration_count == data[1]
             params == data[2]
             mean == data[3]
             accepted == data[5]
             metric == data[6]
             args == <<iteration_count, params, mean, accepted, metric>>
         IN  [err |-> IF Len(args) = CallbackArity THEN NoError ELSE Raise("TypeError"),
              calls |-> <<args>>]

\* what _wrap_vqe_callback returns
wrap_vqe_callback(cb) == IF cb # None THEN "wrapped_callback" ELSE None

----------------------------------------------------------------------------
(* FakeVQERuntime.run and FakeJob.result *)

FakeJob_result == "None"

has_runtime(p) == p = "FakeRuntimeProvider"

allowed_inputs(inputs) ==
    /\ inputs.operator.cls = "PauliSumOp"
    /\ inputs.aux_operators \in {"list", None}
    /\ inputs.initial_point.t \in {"ndarray", "str"}

allowed_options(options) == options.backend_name.t = "str"

NoData == <<>>

\* [err, calls, data]: the exception run raises, the calls of the caller's callback
\* and the data run passed to its callback argument
FakeVQERuntime_run(program_id, inputs, options, cb, data) ==
    IF program_id # "vqe"
    THEN [err |-> Raise("ProgramId"), calls |-> NoCalls, data |-> NoData]
    ELSE IF ~allowed_inputs(inputs)
    THEN [err |-> Raise("InputType"), calls |-> NoCalls, data |-> NoData]
    ELSE IF ~allowed_options(options)
    THEN [err |-> Raise("InputType"), calls |-> NoCalls, data |-> NoData]
    ELSE IF cb # None
         THEN LET r == wrapped_callback(data)
              IN  [err |-> IF r.err = NoError THEN NoError ELSE Raise("CallbackFailed"),
                   calls |-> r.calls, data |-> data]
         ELSE [err |-> NoError, calls |-> NoCalls, data |-> NoData]

----------------------------------------------------------------------------
(* compute_minimum_eigenvalue *)

NoBundle == [program_id |-> "no run"]

Failed(e) ==
    [err |-> e, ret |-> "raised", runs |-> 0, sent |-> NoBundle, calls |-> NoCalls,
     data |-> NoData]

backend_unchecked(b) == NoError

\* if self.backend is None: raise
check_backend(b) == IF b = None THEN Raise("BackendNotSet") ELSE NoError

\* if self.provider is None: raise
check_provider(p) == IF p = None THEN Raise("ProviderNotSet") ELSE NoError

\* the inputs dict
runtime_inputs(operator, aux_operators) ==
    [operator |-> operator,
     aux_operators |-> aux_operators,
     ansatz |-> ansatz,
     optimizer |-> optimizer_name,
     optimizer_params |-> optimizer_settings,
     initial_point |-> initial_point_input(initial_point),
     shots |-> shots,
     readout_error_mitigation |-> readout_error_mitigation]

\* the options dict
runtime_options == [backend_name |-> backend_name(backend)]

\* the call provider.runtime.run(...).result(), the service passing `data`
\* to its callback
run_and_result(inputs, data) ==
    LET cb == wrap_vqe_callback(callback)
        r == FakeVQERuntime_run(program_name, inputs, runtime_options, cb, data)
    IN  [err |-> r.err,
         ret |-> IF r.err = NoError THEN FakeJob_result ELSE "raised",
         runs |-> 1,
         sent |-> [program_id |-> program_name, inputs |-> inputs,
                   options |-> runtime_options, callback |-> cb],
         calls |-> r.calls,
         data |-> r.data]

\* the outcome of compute_minimum_eigenvalue(operator, aux_operators)
compute(operator, aux_operators, data) ==
    LET e_backend == check_backend(backend)
        e_provider == check_provider(provider)
        n == normalize_operator(operator)
        e_settings == validate_optimizer_settings(optimizer_name, optimizer_settings)
    IN  IF e_backend # NoError THEN Failed(e_backend)
        ELSE IF e_provider # NoError THEN Failed(e_provider)
        ELSE IF n.err # NoError THEN Failed(n.err)
        ELSE IF e_settings # NoError THEN Failed(e_settings)
        ELSE IF backend = None \/ ~has_runtime(provider) THEN Failed(Raise("AttributeError"))
        ELSE run_and_result(runtime_inputs(n.operator, aux_operators), data)

----------------------------------------------------------------------------
(* the setters *)

\* hasattr(provider, 'runtime'): True or False, or the exception the access raises
hasattr_runtime(p) ==
    IF p = "UnauthorizedProvider" THEN "IBMQNotAuthorizedError"
    ELSE IF p = "FakeRuntimeProvider" THEN "True" ELSE "False"

\* the exception the provider setter raises, or NoError
provider_error(p) ==
    IF hasattr_runtime(p) = "IBMQNotAuthorizedError" THEN Raise("InvalidProvider") ELSE NoError

optimizer_name_unchecked(name) == NoError

\* the exception the optimizer_name setter raises, or NoError
optimizer_name_error(name) ==
    IF name \notin {"SPSA", "QN-SPSA"} THEN Raise("UnsupportedOptimizer") ELSE NoError

\* what a call that is no dispatch leaves behind
Called(op, arg, e) ==
    /\ last' = [op |-> op, arg |-> arg]
    /\ err' = e
    /\ ret' = "no value"
    /\ runs' = 0
    /\ sent' = NoBundle
    /\ cb_calls' = NoCalls
    /\ cb_data' = NoData

VQEProgram_init(a, name, settings, point, p, b, n, mitigation, cb) ==
    /\ pc = "new"
    /\ program_name' = "vqe"
    /\ ansatz' = a
    /\ optimizer_settings' = IF settings.t = "NoneType" THEN {} ELSE settings.val
    /\ optimizer' = optimizer
    /\ backend' = b
    /\ initial_point' = point
    /\ shots' = n
    /\ readout_error_mitigation' = mitigation
    /\ callback' = cb
    /\ LET e_provider == IF p # None THEN provider_error(p) ELSE NoError
           e_name == optimizer_name_error(name)
       IN  /\ provider' = IF p # None /\ e_provider = NoError THEN p ELSE None
           /\ optimizer_name' = IF e_provider = NoError /\ e_name = NoError THEN name ELSE None
           /\ pc' = IF e_provider = NoError /\ e_name = NoError THEN "ready" ELSE "failed"
           /\ Called("__init__", Tag("args", <<name, p>>),
                     IF e_provider # NoError THEN e_provider ELSE e_name)

set_provider(p) ==
    /\ pc = "ready"
    /\ provider' = IF provider_error(p) = NoError THEN p ELSE provider
    /\ Called("provider", Tag("Provider", p), provider_error(p))
    /\ UNCHANGED <<pc, program_name, ansatz, optimizer_name, optimizer_settings, optimizer,
                   backend, initial_point, shots, readout_error_mitigation, callback>>

set_ansatz(a) ==
    /\ pc = "ready"
    /\ ansatz' = a
    /\ Called("ansatz", Tag("QuantumCircuit", a), NoError)
    /\ UNCHANGED <<pc, program_name, provider, optimizer_name, optimizer_settings, optimizer,
                   backend, initial_point, shots, readout_error_mitigation, callback>>

set_optimizer_name(name) ==
    /\ pc = "ready"
    /\ optimizer_name' = IF optimizer_name_error(name) = NoError THEN name ELSE optimizer_name
    /\ Called("optimizer_name", Tag("str", name), optimizer_name_error(name))
    /\ UNCHANGED <<pc, program_name, provider, ansatz, optimizer_settings, optimizer,
                   backend, initial_point, shots, readout_error_mitigation, callback>>

set_optimizer_settings(settings) ==
    /\ pc = "ready"
    /\ optimizer_settings' = settings
    /\ Called("optimizer_settings", Tag("dict", settings), NoError)
    /\ UNCHANGED <<pc, program_name, provider, ansatz, optimizer_name, optimizer,
                   backend, initial_point, shots, readout_error_mitigation, callback>>

\* the setter defined under the name optimizer: it stores self._optimizer
set_optimizer(o) ==
    /\ pc = "ready"
    /\ optimizer' = o
    /\ Called("optimizer", Tag("Optimizer", o), NoError)
    /\ UNCHANGED <<pc, program_name, provider, ansatz, optimizer_name, optimizer_settings,
                   backend, initial_point, shots, readout_error_mitigation, callback>>

set_backend(b) ==
    /\ pc = "ready"
    /\ backend' = b
    /\ Called("backend", Tag("Backend", b), NoError)
    /\ UNCHANGED <<pc, program_name, provider, ansatz, optimizer_name, optimizer_settings,
                   optimizer, initial_point, shots, readout_error_mitigation, callback>>

set_initial_point(point) ==
    /\ pc = "ready"
    /\ initial_point' = point
    /\ Called("initial_point", Tag("point", point), NoError)
    /\ UNCHANGED <<pc, program_name, provider, ansatz, optimizer_name, optimizer_settings,
                   optimizer, backend, shots, readout_error_mitigation, callback>>

set_shots(n) ==
    /\ pc = "ready"
    /\ shots' = n
    /\ Called("shots", Tag("int", n), NoError)
    /\ UNCHANGED <<pc, program_name, provider, ansatz, optimizer_name, optimizer_settings,
                   optimizer, backend, initial_point, readout_error_mitigation, callback>>

set_readout_error_mitigation(mitigation) ==
    /\ pc = "ready"
    /\ readout_error_mitigation' = mitigation
    /\ Called("readout_error_mitigation", Tag("bool", mitigation), NoError)
    /\ UNCHANGED <<pc, program_name, provider, ansatz, optimizer_name, optimizer_settings,
                   optimizer, backend, initial_point, shots, callback>>

set_callback(cb) ==
    /\ pc = "ready"
    /\ callback' = cb
    /\ Called("callback", Tag("Callable", cb), NoError)
    /\ UNCHANGED <<pc, program_name, provider, ansatz, optimizer_name, optimizer_settings,
                   optimizer, backend, initial_point, shots, readout_error_mitigation>>

\* the properties read back: the getter each property name is bound to
getter(name) ==
    CASE name = "provider" -> Tag("Provider", provider)
      [] name = "program_name" -> Tag("str", program_name)
      [] name = "ansatz" -> Tag("QuantumCircuit", ansatz)
      [] name = "optimizer_name" -> Tag("str", optimizer_name)
      [] name = "optimizer_settings" -> Tag("dict", optimizer_settings)
      [] name = "optimizer" -> Tag("dict", optimizer_settings)
      [] name = "backend" -> Tag("Backend", backend)
      [] name = "initial_point" -> Tag("point", initial_point)
      [] name = "shots" -> Tag("int", shots)
      [] name = "readout_error_mitigation" -> Tag("bool", readout_error_mitigation)
      [] name = "callback" -> Tag("Callable", callback)

compute_minimum_eigenvalue(operator, aux_operators, data) ==
    /\ pc = "ready"
    /\ \E out \in {compute(operator, aux_operators, data)} :
           /\ err' = out.err
           /\ ret' = out.ret
           /\ runs' = out.runs
           /\ sent' = out.sent
           /\ cb_calls' = out.calls
           /\ cb_data' = out.data
    /\ last' = [op |-> "compute_minimum_eigenvalue",
                arg |-> Tag("operator", [operator |-> operator, aux_operators |-> aux_operators])]
    /\ UNCHANGED <<pc, config>>

----------------------------------------------------------------------------
(* the specification *)

Init ==
    /\ pc = "new"
    /\ program_name = "unset"
    /\ provider = None
    /\ ansatz = "unset"
    /\ optimizer_name = None
    /\ optimizer_settings = {}
    /\ optimizer = "unset"
    /\ backend = None
    /\ initial_point = PyNone
    /\ shots = 0
    /\ readout_error_mitigation = FALSE
    /\ callback = None
    /\ last = [op |-> "none", arg |-> Tag("NoneType", None)]
    /\ err = NoError
    /\ ret = "no value"
    /\ runs = 0
    /\ sent = NoBundle
    /\ cb_calls = NoCalls
    /\ cb_data = NoData

SettingsArguments == {Tag("NoneType", {})} \cup {Tag("dict", d) : d \in SettingsDicts}

Next ==
    \/ \E a \in Ansatzes, name \in OptimizerNames, settings \in SettingsArguments,
          point \in InitialPoints, p \in Providers, b \in Backends, n \in ShotCounts,
          mitigation \in BOOLEAN, cb \in Callbacks :
            VQEProgram_init(a, name, settings, point, p, b, n, mitigation, cb)
    \/ \E p \in Providers : set_provider(p)
    \/ \E a \in Ansatzes : set_ansatz(a)
    \/ \E name \in OptimizerNames : set_optimizer_name(name)
    \/ \E settings \in SettingsDicts : set_optimizer_settings(settings)
    \/ \E o \in Optimizers : set_optimizer(o)
    \/ \E b \in Backends : set_backend(b)
    \/ \E point \in InitialPoints : set_initial_point(point)
    \/ \E n \in ShotCounts : set_shots(n)
    \/ \E mitigation \in BOOLEAN : set_readout_error_mitigation(mitigation)
    \/ \E cb \in Callbacks : set_callback(cb)
    \/ \E operator \in Operators, aux_operators \in AuxOperators, data \in ServiceData :
            compute_minimum_eigenvalue(operator, aux_operators, data)

Spec == Init /\ [][Next]_vars

----------------------------------------------------------------------------
(* the properties *)

Computed == last.op = "compute_minimum_eigenvalue"

\* the operator and the auxiliary operators the last dispatch was called with
GivenOperator == last.arg.val.operator

GivenAuxOperators == last.arg.val.aux_operators

\* the allow-list of each optimizer, as documented
AllowList(name) ==
    IF name = "QN-SPSA"
    THEN Elements(allowed_settings) \ {"trust_region", "second_order"}
    ELSE Elements(allowed_settings)

Offending(name, settings) == keys(settings) \ AllowList(name)

Convertible(operator) ==
    operator.cls = "PauliSumOp" \/ operator.prim \in {"Pauli", "SparsePauliOp"}

AsPauliSumOp(operator) ==
    [cls |-> "PauliSumOp", prim |-> "SparsePauliOp",
     labels |-> operator.labels, coeff |-> operator.coeff]

\* C1: a dispatch with backend, provider and a convertible operator raises the
\* unsupported-setting error exactly when a settings key is outside the allow-list of
\* the selected optimizer (for QN-SPSA: the SPSA list without 'trust_region' and
\* 'second_order'), the error names exactly those keys, and nothing is run remotely.
C1_UnsupportedSettingsIffOffendingKeys ==
    (Computed /\ backend # None /\ provider # None /\ Convertible(GivenOperator)
        /\ optimizer_name \in {"SPSA", "QN-SPSA"})
    => /\ (err.kind = "UnsupportedSettings")
            <=> (Offending(optimizer_name, optimizer_settings) # {})
       /\ err.kind = "UnsupportedSettings"
            => (err.keys = Offending(optimizer_name, optimizer_settings) /\ runs = 0)

\* C2: a dispatch of a valid configuration (backend, a provider with a runtime, a
\* supported optimizer, settings within its allow-list, a convertible operator) to a
\* service that only checks the program id and the input types succeeds, makes one
\* remote run under the program id 'vqe' and returns the job's result.
C2_ValidConfigurationDispatches ==
    (Computed /\ backend # None /\ has_runtime(provider)
        /\ optimizer_name \in {"SPSA", "QN-SPSA"}
        /\ Offending(optimizer_name, optimizer_settings) = {}
        /\ Convertible(GivenOperator)
        /\ callback = None /\ initial_point.t # "list")
    => (err = NoError /\ runs = 1 /\ sent.program_id = "vqe" /\ ret = FakeJob_result)

\* C3: without a callback the service is passed None; with a callback, the service
\* calling the adapter with its data (iteration, parameters, mean and further fields)
\* makes the adapter call the caller's callback once, with four values, the first
\* three being iteration, parameters and mean.
C3_CallbackGetsFourValues ==
    (Computed /\ runs = 1)
    => /\ callback = None => sent.callback = None
       /\ (callback # None /\ Len(cb_data) >= 6)
            => /\ Len(cb_calls) = 1
               /\ Len(cb_calls[1]) = CallbackArity
               /\ SubSeq(cb_calls[1], 1, 3) = SubSeq(cb_data, 1, 3)

\* C4: a provider without the 'runtime' capability is rejected with the
\* invalid-provider error and never stored.
C4_OnlyRuntimeProvidersStored ==
    /\ pc = "ready" => (provider = None \/ hasattr_runtime(provider) = "True")
    /\ (last.op = "provider" /\ last.arg.val # None /\ hasattr_runtime(last.arg.val) # "True")
        => err.kind = "InvalidProvider"

SupportedName(name) == name \in {"SPSA", "QN-SPSA"}

\* C5: the optimizer_name setter raises the unsupported-optimizer error for every name
\* other than 'SPSA' and 'QN-SPSA' and leaves the stored name as it was, the constructor
\* fails for such a name (with that error once the provider is accepted), and the
\* stored name of a constructed object is always one of the two.
C5_OptimizerNameSupported ==
    /\ [](pc = "ready" => SupportedName(optimizer_name))
    /\ [][(last'.op = "optimizer_name" /\ ~SupportedName(last'.arg.val))
            => (err'.kind = "UnsupportedOptimizer" /\ optimizer_name' = optimizer_name)]_vars
    /\ [][(last'.op = "__init__" /\ pc = "new" /\ ~SupportedName(last'.arg.val[1]))
            => (/\ pc' = "failed"
                /\ err'.kind \in {"UnsupportedOptimizer", "InvalidProvider"}
                /\ (err'.kind = "InvalidProvider"
                      => hasattr_runtime(last'.arg.val[2]) = "IBMQNotAuthorizedError"))]_vars

C5_Witness ==
    /\ pc = "ready" /\ last.op = "optimizer_name" /\ last.arg.val = "COBYLA"
    /\ err.kind = "UnsupportedOptimizer" /\ optimizer_name = "QN-SPSA"

\* C6, as stated: in every state of a constructed object the keys of the stored
\* optimizer settings are within the allow-list of the selected optimizer.
C6_StoredSettingsAllowed ==
    pc = "ready" => Offending(optimizer_name, optimizer_settings) = {}

\* C6, amended: the stored optimizer name is always supported, and in every bundle
\* submitted to the remote service the optimizer is supported and the keys of the
\* optimizer settings are within the allow-list of that optimizer.
C6_DispatchedSettingsAllowed ==
    /\ pc = "ready" => SupportedName(optimizer_name)
    /\ runs = 1 => /\ SupportedName(sent.inputs.optimizer)
                   /\ Offending(sent.inputs.optimizer, sent.inputs.optimizer_params) = {}

C6_Witness ==
    /\ Computed /\ runs = 1 /\ err = NoError
    /\ sent.inputs.optimizer_params = Dict({"maxiter"})

\* C7: a dispatch with the backend unset raises the backend error, one with the
\* backend set and the provider unset raises the provider error, whatever the rest is;
\* neither runs anything remotely, and a dispatch changes no stored setting.
C7_BackendAndProviderRequired ==
    /\ []((Computed /\ backend = None)
            => (err.kind = "BackendNotSet" /\ runs = 0 /\ ret = "raised"))
    /\ []((Computed /\ backend # None /\ provider = None)
            => (err.kind = "ProviderNotSet" /\ runs = 0 /\ ret = "raised"))
    /\ [][last'.op = "compute_minimum_eigenvalue" => config' = config]_vars

C7_Witness ==
    /\ Computed /\ backend = None /\ provider = None
    /\ err.kind = "BackendNotSet" /\ runs = 0
    /\ Offending(optimizer_name, optimizer_settings) # {}

\* C8: in every submitted bundle the initial point is 'random' when the stored one is
\* None and the stored one otherwise, the other entries are the stored settings and
\* the auxiliary operators passed, and the options carry the backend's name.
C8_BundleCarriesSettings ==
    runs = 1
    => /\ initial_point.t = "NoneType" => sent.inputs.initial_point = PyStr("random")
       /\ initial_point.t # "NoneType" => sent.inputs.initial_point = initial_point
       /\ sent.inputs.ansatz = ansatz
       /\ sent.inputs.optimizer = optimizer_name
       /\ sent.inputs.optimizer_params = optimizer_settings
       /\ sent.inputs.shots = shots
       /\ sent.inputs.readout_error_mitigation = readout_error_mitigation
       /\ sent.inputs.aux_operators = GivenAuxOperators
       /\ backend = "AerSimulator" => sent.options = [backend_name |-> PyStr("aer_simulator")]

C8_Witness ==
    /\ Computed /\ runs = 1 /\ initial_point.t = "NoneType"
    /\ sent.inputs.initial_point = PyStr("random")
    /\ shots = 2048 /\ sent.inputs.shots = 2048

\* C9: with backend and provider set, a non-convertible operator makes the dispatch
\* fail with the operator error, whatever the optimizer settings, and nothing is run;
\* a submitted operator is a PauliSumOp: the given one if it was one, its conversion
\* otherwise.
C9_OperatorNormalized ==
    Computed
    => /\ (backend # None /\ provider # None /\ ~Convertible(GivenOperator))
            => (err.kind = "InvalidOperator" /\ runs = 0)
       /\ runs = 1
            => /\ sent.inputs.operator.cls = "PauliSumOp"
               /\ GivenOperator.cls = "PauliSumOp" => sent.inputs.operator = GivenOperator
               /\ GivenOperator.cls # "PauliSumOp"
                    => sent.inputs.operator = AsPauliSumOp(GivenOperator)

C9_Witness ==
    /\ Computed /\ runs = 1
    /\ GivenOperator.cls = "PauliOp"
    /\ sent.inputs.operator = AsPauliSumOp(GivenOperator)

SettableProperties ==
    {"ansatz", "optimizer_name", "optimizer_settings", "optimizer", "backend",
     "initial_point", "shots", "readout_error_mitigation", "callback", "provider"}

\* C10: after a successful assignment to a settable property, reading that property
\* returns the assigned value, and the program name is always 'vqe'.
C10_ReadReturnsAssigned ==
    pc = "ready"
    => /\ program_name = "vqe"
       /\ (last.op \in SettableProperties /\ err = NoError) => PyEq(getter(last.op), last.arg)

====
